---- MODULE Spec2Model ----
(***************************************************************************)
(* jacobi_noft.c: the SOR/Jacobi relaxation of a 2D field distributed over *)
(* an MPI process grid.  Each MPI process is a state machine walking       *)
(* through jacobi_cpu; the MPI library is modelled by the message channels *)
(* (point-to-point, non-overtaking), the request slots and the collective  *)
(* records.                                                                *)
(*                                                                         *)
(* TYPE values are fixed-point numbers with Scale units per 1.0; every     *)
(* multiplication and division rounds to that grid (towards zero), the way *)
(* every floating-point operation of the source rounds to its own grid.    *)
(***************************************************************************)
EXTENDS Integers, Sequences, FiniteSets, TLC

\* ------------------------------------------------------------------------
\* Bounds of the explored inputs
\* ------------------------------------------------------------------------
MaxProcs == 3
MaxDim == 2
MaxIter == 2
MaxVal == 1
SmallProcs == 2
MaxTopoProcs == 6

\* ------------------------------------------------------------------------
\* TYPE arithmetic
\* ------------------------------------------------------------------------
Scale == 1000

\* M_PI of <math.h>, in Scale units per 1.0
M_PI == (31416 * Scale) \div 10000

\* C division of a by b > 0 (truncation towards zero)
TruncDiv(a, b) == IF a >= 0 THEN a \div b ELSE -((-a) \div b)

Abs(x) == IF x >= 0 THEN x ELSE -x

\* x * y on TYPE: the product x * y / Scale rounded towards zero, computed
\* from the integer and the fractional part of |x|
FMul(x, y) ==
    LET m == (Abs(x) \div Scale) * Abs(y) + ((Abs(x) % Scale) * Abs(y)) \div Scale
    IN IF (x >= 0) = (y >= 0) THEN m ELSE -m

\* x / y on TYPE, y > 0
FDiv(x, y) == TruncDiv(x * Scale, y)

\* (TYPE)n for an int n
ToType(n) == n * Scale

\* _W = 2.0 / (1.0 + M_PI / (TYPE)nb)
RelaxW(nb) == FDiv(ToType(2), ToType(1) + FDiv(M_PI, ToType(nb)))

\* ------------------------------------------------------------------------
\* Grid buffers: (nb+2) x (mb+2) cells, row-major, as functions on 0..len-1
\* ------------------------------------------------------------------------
GridLen(nb, mb) == (nb + 2) * (mb + 2)

GridIdx(nb, mb) == 0 .. (GridLen(nb, mb) - 1)

\* pos = 1 + i + (j + 1) * (nb + 2)
Pos(i, j, nb) == 1 + i + (j + 1) * (nb + 2)

InteriorIdx(nb, mb) == { Pos(i, j, nb) : i \in 0 .. (nb - 1), j \in 0 .. (mb - 1) }

GhostIdx(nb, mb) == GridIdx(nb, mb) \ InteriorIdx(nb, mb)

\* calloc(sizeof(TYPE), (NB + 2) * (MB + 2))
ZeroGrid(nb, mb) == [x \in GridIdx(nb, mb) |-> 0]

\* ------------------------------------------------------------------------
\* SOR1
\* ------------------------------------------------------------------------
\* the Jacobi update: all four neighbours read from om
SOR1Cell_pureJacobi(nmv, omv, nb, pos) ==
    FMul(ToType(1) - RelaxW(nb), omv[pos])
      + FMul(FDiv(RelaxW(nb), ToType(4)),
             omv[pos - 1] + omv[pos + 1] + omv[pos - (nb + 2)] + omv[pos + (nb + 2)])

\* the right-hand side of the assignment to nm[pos]
SOR1Cell(nmv, omv, nb, pos) ==
    FMul(ToType(1) - RelaxW(nb), omv[pos])
      + FMul(FDiv(RelaxW(nb), ToType(4)),
             nmv[pos - 1] + omv[pos + 1] + nmv[pos - (nb + 2)] + omv[pos + (nb + 2)])

\* pos in the k-th execution of the loop body (k = 0, 1, ...): j = k / nb
\* in the outer loop, i = k % nb in the inner loop
VisitedPos(k, nb) == Pos(k % nb, k \div nb, nb)

\* the loops accumulating the squares of the new values
RECURSIVE SOR1Loop_normOfNew(_, _, _, _, _, _)
SOR1Loop_normOfNew(nmv, omv, nb, mb, k, norm) ==
    IF k >= nb * mb
    THEN [nm |-> nmv, norm |-> norm]
    ELSE LET pos == VisitedPos(k, nb)
         IN CHOOSE r \in { SOR1Loop_normOfNew([nmv EXCEPT ![pos] = v], omv, nb, mb, k + 1,
                                              norm + FMul(v, v)) :
                             v \in {SOR1Cell(nmv, omv, nb, pos)} } : TRUE

\* the two nested loops, k = j * nb + i counting the cells already visited;
\* v is the value stored into nm[pos], computed once and read back for the
\* norm
RECURSIVE SOR1Loop(_, _, _, _, _, _)
SOR1Loop(nmv, omv, nb, mb, k, norm) ==
    IF k >= nb * mb
    THEN [nm |-> nmv, norm |-> norm]
    ELSE LET pos == VisitedPos(k, nb)
         IN CHOOSE r \in { SOR1Loop([nmv EXCEPT ![pos] = v], omv, nb, mb, k + 1,
                                    norm + FMul(v - omv[pos], v - omv[pos])) :
                             v \in {SOR1Cell(nmv, omv, nb, pos)} } : TRUE

\* SOR1(nm, om, nb, mb): the new content of nm and the returned norm
SOR1(nmv, omv, nb, mb) == SOR1Loop(nmv, omv, nb, mb, 0, 0)

\* ------------------------------------------------------------------------
\* MPI_Comm_split(comm, color, key = rank): the group of a rank is the set
\* of ranks with its color, ordered by key
\* ------------------------------------------------------------------------
\* the two colors exchanged: the north-south communicator split by rank / P
NsColor_byRow(r, P) == r \div P

\* color of the north-south communicator: rank % P
NsColor(r, P) == r % P

\* color of the east-west communicator: rank / P
EwColor(r, P) == r \div P

Color(kind, r, P) == IF kind = "ns" THEN NsColor(r, P) ELSE EwColor(r, P)

Group(kind, r, size, P) ==
    { q \in 0 .. (size - 1) : Color(kind, q, P) = Color(kind, r, P) }

\* MPI_Comm_size of the split communicator
GroupSize(kind, r, size, P) == Cardinality(Group(kind, r, size, P))

\* MPI_Comm_rank of the split communicator
GroupRank(kind, r, size, P) ==
    Cardinality({ q \in Group(kind, r, size, P) : q < r })

\* the rank in comm of the process with rank k in r's split communicator
GroupMember(kind, r, size, P, k) ==
    CHOOSE q \in Group(kind, r, size, P) : GroupRank(kind, q, size, P) = k

\* the split communicator of r: the ranks in comm of its processes, in
\* the order of their ranks in the communicator
Communicator(kind, r, size, P) ==
    [k \in 1 .. GroupSize(kind, r, size, P) |-> GroupMember(kind, r, size, P, k - 1)]

\* ------------------------------------------------------------------------
\* The caller's buffer
\* ------------------------------------------------------------------------
\* the value of the field at global interior cell (gx, gy)
FieldValue(gx, gy, iv) == ToType(iv * (1 + gx + 3 * gy))

\* the value the caller puts into every ghost cell
BoundaryValue(bv) == ToType(10 * bv)

\* the matrix argument of rank r: its block of the field, ghost border set
CallerMatrix(r, c) ==
    [x \in GridIdx(c.NB, c.MB) |->
        IF x \in InteriorIdx(c.NB, c.MB)
        THEN FieldValue((r % c.P) * c.NB + (x % (c.NB + 2)) - 1,
                        (r \div c.P) * c.MB + (x \div (c.NB + 2)) - 1, c.iv)
        ELSE BoundaryValue(c.bv)]

\* ------------------------------------------------------------------------
\* Halo regions of a grid buffer (jacobi.h)
\* ------------------------------------------------------------------------
\* RECV_NORTH(p): the ghost row above the first interior row
RECV_NORTH(nb, mb) == 1

\* SEND_NORTH(p): the first interior row
SEND_NORTH(nb, mb) == (nb + 2) + 1

\* RECV_SOUTH(p): the ghost row below the last interior row
RECV_SOUTH(nb, mb) == (mb + 1) * (nb + 2) + 1

\* SEND_SOUTH(p): the last interior row
SEND_SOUTH(nb, mb) == mb * (nb + 2) + 1

\* count values of buffer g starting at offset off
Slice(g, off, count) == [i \in 1 .. count |-> g[off + i - 1]]

\* buffer g with the values of seq d stored from offset off
Store(g, off, d) ==
    [x \in DOMAIN g |-> IF x >= off /\ x < off + Len(d) THEN d[x - off + 1] ELSE g[x]]

\* send_west[i] = om[(i + 1) * (NB + 2) + 1]
PackWest(g, nb, mb) == [i \in 1 .. mb |-> g[i * (nb + 2) + 1]]

\* the east packing taking the ghost column, om[(i + 1) * (NB + 2) + NB + 1]
PackEast_ghostColumn(g, nb, mb) == [i \in 1 .. mb |-> g[i * (nb + 2) + nb + 1]]

\* send_east[i] = om[(i + 1) * (NB + 2) + NB + 0]
PackEast(g, nb, mb) == [i \in 1 .. mb |-> g[i * (nb + 2) + nb]]

\* om[(i + 1) * (NB + 2)] = recv_west[i]; om[(i + 1) * (NB + 2) + NB + 1] = recv_east[i]
Unpack(g, rw, re, nb, mb) ==
    [x \in DOMAIN g |->
        IF x \div (nb + 2) \in 1 .. mb /\ x % (nb + 2) = 0 THEN rw[x \div (nb + 2)]
        ELSE IF x \div (nb + 2) \in 1 .. mb /\ x % (nb + 2) = nb + 1 THEN re[x \div (nb + 2)]
        ELSE g[x]]

\* ------------------------------------------------------------------------
\* State
\* ------------------------------------------------------------------------
VARIABLES
    cfg,        \* the arguments of jacobi_cpu and the environment of the run
    pc,         \* pc[p]: the position of process p in jacobi_cpu
    iter,       \* iter[p]: the local variable iter
    om, nm,     \* om[p], nm[p]: which buffer each pointer designates
    grid,       \* grid[p][b]: the content of the grid buffer b of p
    scratch,    \* scratch[p][b]: the content of the edge buffer b of p
    mem,        \* mem[p][b]: the allocation state of buffer b of p
    comm,       \* comm[p]: ns_rank, ns_size, ew_rank, ew_size
    req,        \* req[p][s]: the request slot req[s]
    chan,       \* chan[<<s, d>>]: the messages sent by s to d, not yet received
    diff_norm,  \* diff_norm[p]: the local variable diff_norm
    coll,       \* coll[k]: the k-th MPI_Allreduce over comm
    timed,      \* the ranks that have entered the MPI_Reduce calls of print_timings
    png,        \* png[p]: the calls of create_png made by p
    hist,       \* hist[p]: counts of the operations p has issued
    ret         \* ret[p]: the value returned by jacobi_cpu

vars == <<cfg, pc, iter, om, nm, grid, scratch, mem, comm, req, chan,
          diff_norm, coll, timed, png, hist, ret>>

Procs == 0 .. (cfg.size - 1)

GridBufs == {"matrix", "alloc"}

EdgeBufs == {"send_east", "send_west", "recv_east", "recv_west"}

AllocBufs == {"alloc"} \cup EdgeBufs

\* the request slots: 0..3 receives from north, south, east, west;
\* 4..7 sends to north, south, east, west
Slots == 0 .. 7

RecvSlots == 0 .. 3

SendSlots == 4 .. 7

\* the value of a variable that has not been assigned yet
Indeterminate == 0 - 1

\* ------------------------------------------------------------------------
\* Inputs
\* ------------------------------------------------------------------------
NoOom == <<0 - 1, "none">>

\* an epsilon larger than any norm of the explored fields
EpsilonBig == ToType(1000)

Config(size, P, NB, MB, mi, so, eps, bv, iv, hp, oom) ==
    [size |-> size, P |-> P, NB |-> NB, MB |-> MB, max_iter |-> mi,
     save_output |-> so, epsilon |-> eps, bv |-> bv, iv |-> iv,
     heap |-> hp, oom |-> oom]

\* every process grid and iteration cap, on one field in blocks of
\* (MaxDim + 1) x MaxDim cells
GridConfigs ==
    { Config(size, P, MaxDim + 1, MaxDim, mi, FALSE, 0, MaxVal, MaxVal, MaxVal, NoOom) :
        size \in 1 .. MaxProcs, P \in 1 .. MaxProcs, mi \in 0 .. MaxIter }

\* every field, boundary and heap content, on the small process grids
DataConfigs ==
    { Config(size, P, MaxDim, MaxDim, MaxIter, FALSE, 0, bv, iv, hp, NoOom) :
        size \in 1 .. SmallProcs, P \in 1 .. SmallProcs,
        bv \in {0, MaxVal}, iv \in 0 .. MaxVal, hp \in {0, MaxVal} }

\* every block size, field and iteration cap, on a single process
SoloConfigs ==
    { Config(1, 1, NB, MB, mi, FALSE, 0, bv, iv, hp, NoOom) :
        NB \in 1 .. MaxDim, MB \in 1 .. MaxDim, mi \in 0 .. MaxIter,
        bv \in 0 .. MaxVal, iv \in 0 .. MaxVal, hp \in 0 .. MaxVal }

\* the snapshot export enabled
ExportConfigs ==
    { Config(size, P, MaxDim, 1, mi, TRUE, 0, MaxVal, MaxVal, MaxVal, NoOom) :
        size \in 1 .. SmallProcs, P \in 1 .. SmallProcs, mi \in 0 .. MaxIter }

\* an epsilon above the norm, on a changing field and on the zero field
EpsilonConfigs ==
    { Config(size, P, MaxDim, 1, mi, FALSE, EpsilonBig, v, v, v, NoOom) :
        size \in 1 .. SmallProcs, P \in 1 .. SmallProcs, mi \in 0 .. MaxIter,
        v \in {0, MaxVal} }

\* one allocation of one process failing
OomConfigs ==
    { Config(size, P, MaxDim, 1, MaxIter, FALSE, 0, MaxVal, MaxVal, MaxVal, <<r, b>>) :
        size \in 1 .. SmallProcs, P \in 1 .. SmallProcs,
        r \in 0 .. (SmallProcs - 1), b \in AllocBufs }

\* one iteration of a single process on a block of 4 x 4 cells, interior
\* 0, every ghost cell of the caller's buffer 10
ScenarioConfigs ==
    { Config(1, 1, 4, 4, 1, FALSE, 0, 1, 0, hp, NoOom) : hp \in 0 .. MaxVal }

Configs ==
    GridConfigs \cup DataConfigs \cup SoloConfigs \cup ExportConfigs
        \cup EpsilonConfigs \cup OomConfigs \cup ScenarioConfigs

\* the processes of comm entering jacobi_cpu
Entered ==
    /\ pc = [p \in Procs |-> "start"]
    /\ iter = [p \in Procs |-> 0]
    /\ om = [p \in Procs |-> "none"]
    /\ nm = [p \in Procs |-> "none"]
    /\ grid = [p \in Procs |->
                 [b \in GridBufs |->
                    IF b = "matrix" THEN CallerMatrix(p, cfg)
                    ELSE ZeroGrid(cfg.NB, cfg.MB)]]
    /\ scratch = [p \in Procs |-> [b \in EdgeBufs |-> [i \in 1 .. cfg.MB |-> 0]]]
    /\ mem = [p \in Procs |->
                 [b \in GridBufs \cup EdgeBufs |-> IF b = "matrix" THEN "live" ELSE "none"]]
    /\ comm = [p \in Procs |-> [ns_rank |-> 0, ns_size |-> 0, ew_rank |-> 0, ew_size |-> 0,
                                 ns |-> <<>>, ew |-> <<>>]]
    /\ req = [p \in Procs |-> [s \in Slots |-> "null"]]
    /\ chan = [e \in Procs \X Procs |-> <<>>]
    /\ diff_norm = [p \in Procs |-> Indeterminate]
    /\ coll = <<>>
    /\ timed = {}
    /\ png = [p \in Procs |-> [calls |-> <<>>, failed |-> FALSE]]
    /\ hist = [p \in Procs |-> [split |-> 0, posted |-> 0, sor |-> 0, reduce |-> 0,
                                 final |-> "none"]]
    /\ ret = [p \in Procs |-> Indeterminate]

Init ==
    /\ cfg \in Configs
    /\ cfg.oom[1] < cfg.size
    /\ Entered

\* ------------------------------------------------------------------------
\* jacobi_cpu, lines 154-162: rank and size, om = matrix, the allocations
\* ------------------------------------------------------------------------
\* the result of an allocation of buffer b by process p
AllocResult(p, b) == IF cfg.oom = <<p, b>> THEN "null" ELSE "live"

\* the content of a freshly malloc'ed edge buffer
MallocContent == [i \in 1 .. cfg.MB |-> ToType(cfg.heap)]

Alloc(p) ==
    /\ pc[p] = "start"
    /\ om' = [om EXCEPT ![p] = "matrix"]
    /\ nm' = [nm EXCEPT ![p] = "alloc"]
    /\ mem' = [mem EXCEPT ![p] =
                 [b \in GridBufs \cup EdgeBufs |->
                    IF b = "matrix" THEN "live" ELSE AllocResult(p, b)]]
    /\ grid' = [grid EXCEPT ![p]["alloc"] = ZeroGrid(cfg.NB, cfg.MB)]
    /\ scratch' = [scratch EXCEPT ![p] = [b \in EdgeBufs |-> MallocContent]]
    /\ pc' = [pc EXCEPT ![p] = "split"]
    /\ UNCHANGED <<cfg, iter, comm, req, chan, diff_norm, coll, timed, png, hist, ret>>

\* ------------------------------------------------------------------------
\* jacobi_cpu, lines 165-172: the two communicator splits
\* ------------------------------------------------------------------------
\* MPI_Comm_split is collective over comm: it returns once every process
\* of comm has called it
SplitComplete == \A q \in Procs : pc[q] # "start"

CommSplit(p) ==
    /\ pc[p] = "split"
    /\ SplitComplete
    /\ comm' = [comm EXCEPT ![p] =
                  [ns_rank |-> GroupRank("ns", p, cfg.size, cfg.P),
                   ns_size |-> GroupSize("ns", p, cfg.size, cfg.P),
                   ew_rank |-> GroupRank("ew", p, cfg.size, cfg.P),
                   ew_size |-> GroupSize("ew", p, cfg.size, cfg.P),
                   ns |-> Communicator("ns", p, cfg.size, cfg.P),
                   ew |-> Communicator("ew", p, cfg.size, cfg.P)]]
    /\ hist' = [hist EXCEPT ![p].split = 2]
    /\ pc' = [pc EXCEPT ![p] = "top"]
    /\ UNCHANGED <<cfg, iter, om, nm, grid, scratch, mem, req, chan, diff_norm,
                   coll, timed, png, ret>>

\* ------------------------------------------------------------------------
\* jacobi_cpu, lines 174-183: the head of the loop body, create_png
\* ------------------------------------------------------------------------
\* the ways create_png returns: the file written, fopen failed (lines
\* 36-39), the png structs not created (44-47), libpng's error jump (49-53)
ExportOutcomes == {"written", "fopen_failed", "png_failed", "write_failed"}

\* create_png(filename of rank and it, buffer b, NB, MB) returning with
\* outcome o: it writes to the file only; the log keeps the calls and
\* whether one of them has failed
create_png(log, it, b, o) ==
    [calls |-> Append(log.calls, <<it, b>>), failed |-> log.failed \/ o # "written"]

\* the loop head with a failed export ending the process
LoopTop_abortOnFailedExport(p) ==
    /\ pc[p] = "top"
    /\ IF cfg.save_output
       THEN \E o \in ExportOutcomes :
                /\ png' = [png EXCEPT ![p] = create_png(png[p], iter[p], om[p], o)]
                /\ pc' = [pc EXCEPT ![p] = IF o = "written" THEN "post" ELSE "crashed"]
       ELSE /\ UNCHANGED png
            /\ pc' = [pc EXCEPT ![p] = "post"]
    /\ UNCHANGED <<cfg, iter, om, nm, grid, scratch, mem, comm, req, chan,
                   diff_norm, coll, timed, hist, ret>>

LoopTop(p) ==
    /\ pc[p] = "top"
    /\ IF cfg.save_output
       THEN \E o \in ExportOutcomes :
                png' = [png EXCEPT ![p] = create_png(png[p], iter[p], om[p], o)]
       ELSE UNCHANGED png
    /\ pc' = [pc EXCEPT ![p] = "post"]
    /\ UNCHANGED <<cfg, iter, om, nm, grid, scratch, mem, comm, req, chan,
                   diff_norm, coll, timed, hist, ret>>

\* ------------------------------------------------------------------------
\* jacobi_cpu, lines 185-207: post the receives and the sends
\* ------------------------------------------------------------------------
\* the direction of a request slot
SlotDir(s) == <<"north", "south", "east", "west">>[(s % 4) + 1]

\* the conditions guarding the MPI_Irecv and MPI_Isend calls
HasNeighbour(p, d) ==
    CASE d = "north" -> 0 # comm[p].ns_rank
      [] d = "south" -> (comm[p].ns_size - 1) # comm[p].ns_rank
      [] d = "east" -> (comm[p].ew_size - 1) # comm[p].ew_rank
      [] d = "west" -> 0 # comm[p].ew_rank

\* the process a source or destination argument designates: rank
\* ns_rank - 1, ns_rank + 1 of ns, ew_rank + 1, ew_rank - 1 of ew
Peer(p, d) ==
    CASE d = "north" -> comm[p].ns[(comm[p].ns_rank - 1) + 1]
      [] d = "south" -> comm[p].ns[(comm[p].ns_rank + 1) + 1]
      [] d = "east" -> comm[p].ew[(comm[p].ew_rank + 1) + 1]
      [] d = "west" -> comm[p].ew[(comm[p].ew_rank - 1) + 1]

\* the values an MPI_Isend towards d transfers
SendData(p, d) ==
    CASE d = "north" -> Slice(grid[p][om[p]], SEND_NORTH(cfg.NB, cfg.MB), cfg.NB)
      [] d = "south" -> Slice(grid[p][om[p]], SEND_SOUTH(cfg.NB, cfg.MB), cfg.NB)
      [] d = "east" -> PackEast(grid[p][om[p]], cfg.NB, cfg.MB)
      [] d = "west" -> PackWest(grid[p][om[p]], cfg.NB, cfg.MB)

\* chan after p has posted its sends towards the directions ds
Sent(p, ds) ==
    [e \in DOMAIN chan |->
        IF \E d \in ds : HasNeighbour(p, d) /\ e = <<p, Peer(p, d)>>
        THEN LET d == CHOOSE d \in ds : HasNeighbour(p, d) /\ e = <<p, Peer(p, d)>>
             IN Append(chan[e], [data |-> SendData(p, d), it |-> iter[p], dir |-> d])
        ELSE chan[e]]

Directions == {"north", "south", "east", "west"}

\* a NULL receive buffer handed to MPI_Irecv (lines 191, 193)
PostRecvNull(p) ==
    \/ HasNeighbour(p, "east") /\ mem[p]["recv_east"] = "null"
    \/ HasNeighbour(p, "west") /\ mem[p]["recv_west"] = "null"

\* a NULL send buffer written by the packing loop (lines 201, 202)
PackNull(p) == mem[p]["send_west"] = "null" \/ mem[p]["send_east"] = "null"

\* the posting without the MPI_Isend to the south of line 199
Post_southSendMissing(p) ==
    /\ pc[p] = "post"
    /\ ~PostRecvNull(p)
    /\ ~PackNull(p)
    /\ req' = [req EXCEPT ![p] =
                 [s \in Slots |-> IF HasNeighbour(p, SlotDir(s)) /\ s # 5
                                  THEN "pending" ELSE req[p][s]]]
    /\ scratch' = [scratch EXCEPT ![p]["send_west"] = PackWest(grid[p][om[p]], cfg.NB, cfg.MB),
                                  ![p]["send_east"] = PackEast(grid[p][om[p]], cfg.NB, cfg.MB)]
    /\ chan' = Sent(p, Directions \ {"south"})
    /\ hist' = [hist EXCEPT ![p].posted =
                  @ + 2 * Cardinality({d \in Directions : HasNeighbour(p, d)})]
    /\ pc' = [pc EXCEPT ![p] = "wait"]
    /\ UNCHANGED <<cfg, iter, om, nm, grid, mem, comm, diff_norm, coll, timed, png, ret>>

Post(p) ==
    /\ pc[p] = "post"
    /\ ~PostRecvNull(p)
    /\ ~PackNull(p)
    /\ req' = [req EXCEPT ![p] =
                 [s \in Slots |-> IF HasNeighbour(p, SlotDir(s)) THEN "pending" ELSE req[p][s]]]
    /\ scratch' = [scratch EXCEPT ![p]["send_west"] = PackWest(grid[p][om[p]], cfg.NB, cfg.MB),
                                  ![p]["send_east"] = PackEast(grid[p][om[p]], cfg.NB, cfg.MB)]
    /\ chan' = Sent(p, Directions)
    /\ hist' = [hist EXCEPT ![p].posted =
                  @ + 2 * Cardinality({d \in Directions : HasNeighbour(p, d)})]
    /\ pc' = [pc EXCEPT ![p] = "wait"]
    /\ UNCHANGED <<cfg, iter, om, nm, grid, mem, comm, diff_norm, coll, timed, png, ret>>

\* the process dies on the NULL buffer; the sends to north and south of
\* lines 197-199 are out when the packing loop is reached
PostCrash(p) ==
    /\ pc[p] = "post"
    /\ PostRecvNull(p) \/ PackNull(p)
    /\ chan' = IF PostRecvNull(p) THEN chan ELSE Sent(p, {"north", "south"})
    /\ hist' = [hist EXCEPT ![p].posted =
                  @ + Cardinality({d \in {"north", "south"} : HasNeighbour(p, d)})
                    + IF PostRecvNull(p) THEN 0
                      ELSE Cardinality({d \in Directions : HasNeighbour(p, d)})]
    /\ pc' = [pc EXCEPT ![p] = "crashed"]
    /\ UNCHANGED <<cfg, iter, om, nm, grid, scratch, mem, comm, req, diff_norm,
                   coll, timed, png, ret>>

\* ------------------------------------------------------------------------
\* The MPI library completing the posted transfers
\* ------------------------------------------------------------------------
\* where a receive from direction d stores its values
Received(p, d, data) ==
    CASE d = "north" ->
           [g |-> [grid[p] EXCEPT ![om[p]] = Store(@, RECV_NORTH(cfg.NB, cfg.MB), data)],
            e |-> scratch[p]]
      [] d = "south" ->
           [g |-> [grid[p] EXCEPT ![om[p]] = Store(@, RECV_SOUTH(cfg.NB, cfg.MB), data)],
            e |-> scratch[p]]
      [] d = "east" -> [g |-> grid[p], e |-> [scratch[p] EXCEPT !["recv_east"] = data]]
      [] d = "west" -> [g |-> grid[p], e |-> [scratch[p] EXCEPT !["recv_west"] = data]]

\* a posted receive matches the oldest message of its source (same
\* communicator, tag 0) and completes
Deliver(p, s) ==
    /\ pc[p] = "wait"
    /\ s \in RecvSlots
    /\ req[p][s] = "pending"
    /\ LET src == Peer(p, SlotDir(s))
       IN /\ chan[<<src, p>>] # <<>>
          /\ LET r == Received(p, SlotDir(s), Head(chan[<<src, p>>]).data)
             IN /\ grid' = [grid EXCEPT ![p] = r.g]
                /\ scratch' = [scratch EXCEPT ![p] = r.e]
          /\ chan' = [chan EXCEPT ![<<src, p>>] = Tail(@)]
    /\ req' = [req EXCEPT ![p][s] = "complete"]
    /\ UNCHANGED <<cfg, pc, iter, om, nm, mem, comm, diff_norm, coll, timed, png,
                   hist, ret>>

\* the posted sends complete once the library has taken their values
\* (buffered or handed to the receiver): at any time after the posting.
\* The sends of a process complete in one step: MPI_Waitall, the only
\* reader of the requests, returns when all of them have completed.
SendsDone(p) ==
    /\ pc[p] = "wait"
    /\ \E s \in SendSlots : req[p][s] = "pending"
    /\ req' = [req EXCEPT ![p] =
                 [s \in Slots |-> IF s \in SendSlots /\ req[p][s] = "pending"
                                  THEN "complete" ELSE req[p][s]]]
    /\ UNCHANGED <<cfg, pc, iter, om, nm, grid, scratch, mem, comm, chan, diff_norm,
                   coll, timed, png, hist, ret>>

\* ------------------------------------------------------------------------
\* jacobi_cpu, lines 209-222: MPI_Waitall(8, req, MPI_STATUSES_IGNORE)
\* returns, unpack, SOR1, entering MPI_Allreduce
\* ------------------------------------------------------------------------
\* MPI_Waitall returns when no request of the array is pending
\* a wait on the four receive requests only
WaitallReturns_receivesOnly(p) == \A s \in RecvSlots : req[p][s] # "pending"

WaitallReturns(p) == \A s \in Slots : req[p][s] # "pending"

\* the request array after MPI_Waitall: the completed requests are set to
\* MPI_REQUEST_NULL
Waited(p) == [s \in Slots |-> IF req[p][s] = "complete" THEN "null" ELSE req[p][s]]

\* a NULL buffer read by the unpacking loop or written by SOR1
ComputeNull(p) ==
    \/ mem[p]["recv_west"] = "null"
    \/ mem[p]["recv_east"] = "null"
    \/ mem[p][nm[p]] = "null"

\* the k-th MPI_Allreduce after one more process has contributed v
Contributed(k, v) ==
    IF k > Len(coll)
    THEN Append(coll, [sum |-> v, n |-> 1])
    ELSE [coll EXCEPT ![k] = [sum |-> @.sum + v, n |-> @.n + 1]]

\* the step of a process from the return of MPI_Waitall to its call of
\* MPI_Allreduce: it touches the buffers of the process only
WaitUnpackSor(p) ==
    /\ pc[p] = "wait"
    /\ WaitallReturns(p)
    /\ ~ComputeNull(p)
    /\ req' = [req EXCEPT ![p] = Waited(p)]
    /\ LET omv == Unpack(grid[p][om[p]], scratch[p]["recv_west"],
                         scratch[p]["recv_east"], cfg.NB, cfg.MB)
           r == SOR1(grid[p][nm[p]], omv, cfg.NB, cfg.MB)
       IN /\ grid' = [grid EXCEPT ![p] = [b \in GridBufs |-> IF b = om[p] THEN omv ELSE r.nm]]
          /\ diff_norm' = [diff_norm EXCEPT ![p] = r.norm]
          /\ coll' = Contributed(hist[p].reduce + 1, r.norm)
    /\ hist' = [hist EXCEPT ![p].sor = @ + 1, ![p].reduce = @ + 1, ![p].final = nm[p]]
    /\ pc' = [pc EXCEPT ![p] = "allreduce"]
    /\ UNCHANGED <<cfg, iter, om, nm, scratch, mem, comm, chan, timed, png, ret>>

\* the process dies on the NULL buffer after MPI_Waitall has returned
ComputeCrash(p) ==
    /\ pc[p] = "wait"
    /\ WaitallReturns(p)
    /\ ComputeNull(p)
    /\ req' = [req EXCEPT ![p] = Waited(p)]
    /\ pc' = [pc EXCEPT ![p] = "crashed"]
    /\ UNCHANGED <<cfg, iter, om, nm, grid, scratch, mem, comm, chan, diff_norm,
                   coll, timed, png, hist, ret>>

\* ------------------------------------------------------------------------
\* jacobi_cpu, lines 222-228: MPI_Allreduce returns, swap, iter++, the test
\* ------------------------------------------------------------------------
\* MPI_Allreduce over comm returns once every process of comm has contributed
\* a reduction that returns without the other processes
AllreduceReturns_withoutOthers(k) == k <= Len(coll) /\ coll[k].n >= 1

AllreduceReturns(k) == k <= Len(coll) /\ coll[k].n = cfg.size

\* while (iter < max_iter); // && (sqrt(diff_norm) > epsilon)
LoopAgain(it, max_iter, norm, epsilon) == it < max_iter

\* the swap written without the temporary: om = nm; nm = om;
AllreduceDone_swapWithoutTemp(p) ==
    /\ pc[p] = "allreduce"
    /\ AllreduceReturns(hist[p].reduce)
    /\ diff_norm' = [diff_norm EXCEPT ![p] = coll[hist[p].reduce].sum]
    /\ om' = [om EXCEPT ![p] = nm[p]]
    /\ nm' = nm
    /\ iter' = [iter EXCEPT ![p] = @ + 1]
    /\ pc' = [pc EXCEPT ![p] =
                IF LoopAgain(iter[p] + 1, cfg.max_iter, coll[hist[p].reduce].sum, cfg.epsilon)
                THEN "top" ELSE "timings"]
    /\ UNCHANGED <<cfg, grid, scratch, mem, comm, req, chan, coll, timed, png, hist, ret>>

AllreduceDone(p) ==
    /\ pc[p] = "allreduce"
    /\ AllreduceReturns(hist[p].reduce)
    /\ diff_norm' = [diff_norm EXCEPT ![p] = coll[hist[p].reduce].sum]
    /\ om' = [om EXCEPT ![p] = nm[p]]
    /\ nm' = [nm EXCEPT ![p] = om[p]]
    /\ iter' = [iter EXCEPT ![p] = @ + 1]
    /\ pc' = [pc EXCEPT ![p] =
                IF LoopAgain(iter[p] + 1, cfg.max_iter, coll[hist[p].reduce].sum, cfg.epsilon)
                THEN "top" ELSE "timings"]
    /\ UNCHANGED <<cfg, grid, scratch, mem, comm, req, chan, coll, timed, png, hist, ret>>

\* ------------------------------------------------------------------------
\* print_timings: the two MPI_Reduce calls to root 0
\* ------------------------------------------------------------------------
\* MPI_Reduce returns at the root once every process has contributed
ReduceReturns(p) == p = 0 => \A q \in Procs \ {0} : q \in timed

PrintTimings(p) ==
    /\ pc[p] = "timings"
    /\ ReduceReturns(p)
    /\ timed' = timed \cup {p}
    /\ pc' = [pc EXCEPT ![p] = "cleanup"]
    /\ UNCHANGED <<cfg, iter, om, nm, grid, scratch, mem, comm, req, chan, diff_norm,
                   coll, png, hist, ret>>

\* ------------------------------------------------------------------------
\* jacobi_cpu, lines 233-245: the releases and the return
\* ------------------------------------------------------------------------
\* free(b)
Free(m, b) ==
    [m EXCEPT ![b] = CASE @ = "live" -> "freed"
                       [] @ = "freed" -> "double_freed"
                       [] OTHER -> @]

\* the release of the current buffer whatever it is: free(om);
FreeGrid_freesCurrent(m, omp, nmp) == Free(m, omp)

\* if (matrix != om) free(om); else free(nm);
FreeGrid(m, omp, nmp) == IF "matrix" # omp THEN Free(m, omp) ELSE Free(m, nmp)

Cleanup(p) ==
    /\ pc[p] = "cleanup"
    /\ mem' = [mem EXCEPT ![p] =
                 Free(Free(Free(Free(FreeGrid(@, om[p], nm[p]),
                      "send_west"), "send_east"), "recv_west"), "recv_east")]
    /\ ret' = [ret EXCEPT ![p] = iter[p]]
    /\ pc' = [pc EXCEPT ![p] = "done"]
    /\ UNCHANGED <<cfg, iter, om, nm, grid, scratch, comm, req, chan, diff_norm,
                   coll, timed, png, hist>>

\* ------------------------------------------------------------------------
\* The run
\* ------------------------------------------------------------------------
Next ==
    \/ \E p \in Procs : Alloc(p)
    \/ \E p \in Procs : CommSplit(p)
    \/ \E p \in Procs : LoopTop(p)
    \/ \E p \in Procs : Post(p)
    \/ \E p \in Procs : PostCrash(p)
    \/ \E p \in Procs : \E s \in RecvSlots : Deliver(p, s)
    \/ \E p \in Procs : SendsDone(p)
    \/ \E p \in Procs : WaitUnpackSor(p)
    \/ \E p \in Procs : ComputeCrash(p)
    \/ \E p \in Procs : AllreduceDone(p)
    \/ \E p \in Procs : PrintTimings(p)
    \/ \E p \in Procs : Cleanup(p)

Spec == Init /\ [][Next]_vars

\* ------------------------------------------------------------------------
\* The run under fair scheduling
\* ------------------------------------------------------------------------
\* every valid process grid and iteration cap on blocks of one cell, and
\* the runs with a failing allocation
FairConfigs ==
    { c \in { Config(size, P, 1, 1, mi, FALSE, 0, MaxVal, MaxVal, MaxVal, NoOom) :
                size \in 1 .. MaxProcs, P \in 1 .. MaxProcs, mi \in 0 .. MaxIter } :
        c.size % c.P = 0 }
      \cup OomConfigs

FairInit ==
    /\ cfg \in FairConfigs
    /\ cfg.oom[1] < cfg.size
    /\ Entered

\* the run does not stop while a process or the library can take a step:
\* what is left of the fair scheduling of every process and of the
\* completion of every matched transfer when no step can be repeated
\* forever (every step of Next moves a process forward or consumes a
\* request)
FairSpec == FairInit /\ [][Next]_vars /\ WF_vars(Next)

\* ------------------------------------------------------------------------
\* The run up to the loop, lines 154-172, on larger process grids
\* ------------------------------------------------------------------------
TopologyConfigs ==
    { Config(size, P, 1, 1, 0, FALSE, 0, 0, 0, 0, NoOom) :
        size \in 1 .. MaxTopoProcs, P \in 1 .. MaxTopoProcs }

TopologyInit ==
    /\ cfg \in TopologyConfigs
    /\ Entered

TopologyNext ==
    \/ \E p \in Procs : Alloc(p)
    \/ \E p \in Procs : CommSplit(p)

TopologySpec == TopologyInit /\ [][TopologyNext]_vars

\* ------------------------------------------------------------------------
\* Vocabulary of the properties
\* ------------------------------------------------------------------------
\* jacobi_cpu has returned on p
Returned(p) == pc[p] = "done"

\* p is inside the do-while loop
InLoop(p) == pc[p] \in {"top", "post", "wait", "allreduce"}

\* p has left the do-while loop
PastLoop(p) == pc[p] \in {"timings", "cleanup", "done"}

\* size % P == 0
WellFormed == cfg.size % cfg.P = 0

\* an allocation of p has returned NULL
AllocFailed(p) == \E b \in AllocBufs : mem[p][b] = "null"

\* the current buffer of p, the final iterate once p has left the loop
Current(p) == grid[p][om[p]]

\* the field of the whole domain as the caller distributes it: the blocks
\* of the ranks side by side, the external boundary on the ghost border
WholeField(c) ==
    LET gw == c.P * c.NB
        gh == (c.size \div c.P) * c.MB
    IN [x \in GridIdx(gw, gh) |->
          IF x \in InteriorIdx(gw, gh)
          THEN FieldValue((x % (gw + 2)) - 1, (x \div (gw + 2)) - 1, c.iv)
          ELSE BoundaryValue(c.bv)]

\* the second buffer of the single-domain run: the same ghost border
WholeNext(c) ==
    LET gw == c.P * c.NB
        gh == (c.size \div c.P) * c.MB
    IN [x \in GridIdx(gw, gh) |->
          IF x \in InteriorIdx(gw, gh) THEN 0 ELSE BoundaryValue(c.bv)]

\* n stencil updates with buffer swap on one domain
RECURSIVE Relax(_, _, _, _, _)
Relax(omv, nmv, nb, mb, n) ==
    IF n = 0 THEN omv
    ELSE Relax(SOR1(nmv, omv, nb, mb).nm, omv, nb, mb, n - 1)

\* the single-domain result after n iterations
Reference(c, n) ==
    Relax(WholeField(c), WholeNext(c), c.P * c.NB, (c.size \div c.P) * c.MB, n)

\* the cell of the whole domain that is interior cell (i, j) of rank r
GlobalPos(r, i, j, c) ==
    Pos((r % c.P) * c.NB + i, (r \div c.P) * c.MB + j, c.P * c.NB)

\* ------------------------------------------------------------------------
\* C1: when jacobi_cpu returns (max_iter >= 1), exactly one of the two
\* grid buffers has been released and the one still live holds the final
\* iterate, the values written by the last SOR1.
\* ------------------------------------------------------------------------
C1_LiveBufferHoldsFinalIterate ==
    \A p \in Procs :
        (Returned(p) /\ cfg.max_iter >= 1) =>
            /\ Cardinality({b \in GridBufs : mem[p][b] = "freed"}) = 1
            /\ Cardinality({b \in GridBufs : mem[p][b] = "live"}) = 1
            /\ mem[p][hist[p].final] = "live"

\* ------------------------------------------------------------------------
\* C2: jacobi_cpu executes exactly max_iter iterations and returns
\* max_iter; with max_iter = 0 no exchange, update or reduction happens.
\* ------------------------------------------------------------------------
C2_ExactlyMaxIterIterations ==
    \A p \in Procs :
        /\ hist[p].sor <= cfg.max_iter
        /\ hist[p].reduce <= cfg.max_iter
        /\ cfg.max_iter = 0 => hist[p].posted = 0
        /\ Returned(p) => (ret[p] = cfg.max_iter /\ hist[p].sor = cfg.max_iter)

\* ------------------------------------------------------------------------
\* C3: on a valid process grid the interior cells of the final iterates of
\* the processes, reassembled, equal the single-domain result of the same
\* number of stencil updates on the whole field.
\* ------------------------------------------------------------------------
C3_DecompositionTransparent ==
    (WellFormed /\ \A p \in Procs : Returned(p)) =>
        \A p \in Procs : \A i \in 0 .. (cfg.NB - 1) : \A j \in 0 .. (cfg.MB - 1) :
            Current(p)[Pos(i, j, cfg.NB)]
                = Reference(cfg, hist[p].sor)[GlobalPos(p, i, j, cfg)]

\* ------------------------------------------------------------------------
\* C4: with a single process (P = Q = 1) nothing is posted and the field
\* after N iterations is that of N stencil updates with buffer swap on one
\* domain whose ghost border keeps the caller's boundary values.
\* ------------------------------------------------------------------------
C4_SingleProcessRun ==
    (cfg.size = 1 /\ cfg.P = 1) =>
        /\ hist[0].posted = 0
        /\ \A s \in Slots : req[0][s] = "null"
        /\ PastLoop(0) => Current(0) = Reference(cfg, hist[0].sor)

\* ------------------------------------------------------------------------
\* C5: if size % P != 0, jacobi_cpu ends in a configuration error before
\* any communicator split, receive, send or reduction; no iteration runs.
\* ------------------------------------------------------------------------
C5_IllFormedTopologyRejected ==
    ~WellFormed =>
        \A p \in Procs :
            /\ hist[p].split = 0
            /\ hist[p].posted = 0
            /\ hist[p].reduce = 0
            /\ hist[p].sor = 0

\* ------------------------------------------------------------------------
\* C6: if an allocation fails, jacobi_cpu ends in an allocation error and
\* reaches no communication step with the partially allocated buffer set.
\* ------------------------------------------------------------------------
C6_AllocationFailureRejected ==
    \A p \in Procs :
        AllocFailed(p) =>
            /\ hist[p].split = 0
            /\ hist[p].posted = 0
            /\ hist[p].reduce = 0

\* ------------------------------------------------------------------------
\* C7: no process starts iteration k+1 before every process of comm has
\* entered the MPI_Allreduce of iteration k; the iteration counters of any
\* two processes differ by at most 1.
\* ------------------------------------------------------------------------
C7_GlobalIterationBarrier ==
    \A p \in Procs : \A q \in Procs :
        /\ iter[p] <= hist[q].reduce
        /\ iter[p] - iter[q] <= 1
        /\ hist[p].sor = hist[p].reduce
        /\ hist[p].reduce \in {iter[p], iter[p] + 1}

\* a process is exchanging for iteration 1 while another is still in the
\* reduction of iteration 0
C7_Witness ==
    \E p \in Procs : \E q \in Procs :
        /\ iter[p] = 1 /\ pc[p] = "wait" /\ hist[p].posted > 2
        /\ iter[q] = 0 /\ pc[q] = "allreduce"

\* ------------------------------------------------------------------------
\* C8: in each process and iteration the steps run in the order post,
\* wait, unpack and stencil update, reduction, swap and increment; SOR1
\* starts only when every request issued in the iteration has completed,
\* and outside the exchange all 8 request slots are inert.
\* ------------------------------------------------------------------------
StepOrder ==
    { <<"start", "split">>, <<"split", "top">>, <<"top", "post">>,
      <<"post", "wait">>, <<"wait", "allreduce">>,
      <<"allreduce", "top">>, <<"allreduce", "timings">>,
      <<"timings", "cleanup">>, <<"cleanup", "done">>,
      <<"post", "crashed">>, <<"wait", "crashed">> }

C8_StepOrderAndInertSlots ==
    /\ [](\A p \in Procs : pc[p] # "wait" => \A s \in Slots : req[p][s] = "null")
    /\ [][\A p \in Procs :
            /\ pc'[p] # pc[p] => <<pc[p], pc'[p]>> \in StepOrder
            /\ hist'[p].sor # hist[p].sor =>
                  /\ pc[p] = "wait"
                  /\ \A s \in Slots : req[p][s] # "pending"
                  /\ \A s \in Slots : HasNeighbour(p, SlotDir(s)) => req[p][s] = "complete"
                  /\ hist'[p].reduce = hist[p].reduce + 1
            /\ hist'[p].posted # hist[p].posted => pc[p] = "post"
            /\ iter'[p] # iter[p] =>
                  /\ pc[p] = "allreduce"
                  /\ om'[p] = nm[p] /\ nm'[p] = om[p]
                  /\ iter'[p] = iter[p] + 1]_vars

\* a process has done the stencil update of its second iteration, four
\* transfers posted and completed in each iteration
C8_Witness ==
    \E p \in Procs :
        /\ pc[p] = "allreduce" /\ iter[p] = 1 /\ hist[p].posted = 8 /\ hist[p].sor = 2
        /\ \A s \in Slots : req[p][s] = "null"

\* ------------------------------------------------------------------------
\* C9: the loop is left exactly when the iteration counter reaches
\* max_iter, never earlier, whatever epsilon and the global norm are, and
\* the global norm is reduced in every iteration.
\* ------------------------------------------------------------------------
C9_ExitExactlyAtCap ==
    \A p \in Procs :
        /\ PastLoop(p) => iter[p] = cfg.max_iter
        /\ InLoop(p) => iter[p] < cfg.max_iter
        /\ PastLoop(p) => (hist[p].reduce = iter[p] /\ diff_norm[p] = coll[iter[p]].sum)

\* ------------------------------------------------------------------------
\* C10: with save_output, create_png is called once per iteration, before
\* the halo exchange, on the current buffer, with indices 0, 1, ... in
\* order; without it, never; and a call, failing or not, changes neither
\* the grid buffers nor the request slots nor the iteration counter, so the
\* run goes on and returns the count of its iterations.
\* ------------------------------------------------------------------------
\* the calls made once p is at the given position of iteration it
ExportsExpected(p) ==
    LET n == IF pc[p] \in {"post", "wait", "allreduce"}
             THEN iter[p] + 1
             ELSE IF pc[p] \in {"start", "split"} THEN 0 ELSE iter[p]
    IN [k \in 1 .. n |-> <<k - 1, IF (k - 1) % 2 = 0 THEN "matrix" ELSE "alloc">>]

C10_SnapshotExport ==
    /\ [](\A p \in Procs :
            /\ pc[p] # "crashed" =>
                 png[p].calls = IF cfg.save_output THEN ExportsExpected(p) ELSE <<>>
            /\ Returned(p) => ret[p] = hist[p].sor)
    /\ [][\A p \in Procs :
            png'[p] # png[p] =>
                /\ pc[p] = "top" /\ pc'[p] = "post"
                /\ hist'[p].posted = hist[p].posted
                /\ grid' = grid /\ req' = req /\ iter' = iter /\ om' = om /\ nm' = nm]_vars

\* a run of two iterations has returned although an export failed
C10_Witness ==
    \E p \in Procs :
        /\ Returned(p) /\ ret[p] = 2 /\ Len(png[p].calls) = 2
        /\ png[p].failed

\* ------------------------------------------------------------------------
\* C11: NB = MB = 4, one process, interior 0, every ghost cell of the
\* caller's buffer 10, max_iter = 1: after the iteration every one of the
\* 16 interior cells of the new iterate holds (1-W)*0 + (W/4)*(10+10+10+10).
\* ------------------------------------------------------------------------
InScenario ==
    /\ cfg.size = 1 /\ cfg.P = 1 /\ cfg.NB = 4 /\ cfg.MB = 4
    /\ cfg.iv = 0 /\ BoundaryValue(cfg.bv) = ToType(10) /\ cfg.max_iter = 1

ScenarioValue ==
    FMul(ToType(1) - RelaxW(4), 0)
      + FMul(FDiv(RelaxW(4), ToType(4)), ToType(10) + ToType(10) + ToType(10) + ToType(10))

C11_ScenarioUniformValue ==
    (InScenario /\ PastLoop(0)) =>
        \A x \in InteriorIdx(cfg.NB, cfg.MB) : Current(0)[x] = ScenarioValue

\* ------------------------------------------------------------------------
\* C12: for size % P = 0 the two splits give rank r position r / P in a
\* column group of size size / P and position r % P in a row group of size
\* P; position -1 / +1 in the column group is rank r - P / r + P, in the
\* row group rank r - 1 / r + 1; the neighbour relations are symmetric.
\* ------------------------------------------------------------------------
\* r has left the two MPI_Comm_split calls
SplitDone(r) == hist[r].split = 2

C12_TopologyMapping ==
    WellFormed =>
        \A r \in Procs : SplitDone(r) =>
            /\ comm[r].ns_rank = r \div cfg.P
            /\ comm[r].ns_size = cfg.size \div cfg.P
            /\ comm[r].ew_rank = r % cfg.P
            /\ comm[r].ew_size = cfg.P
            /\ HasNeighbour(r, "north") <=> r - cfg.P >= 0
            /\ HasNeighbour(r, "south") <=> r + cfg.P < cfg.size
            /\ HasNeighbour(r, "west") <=> r % cfg.P # 0
            /\ HasNeighbour(r, "east") <=> r % cfg.P # cfg.P - 1
            /\ HasNeighbour(r, "north") => Peer(r, "north") = r - cfg.P
            /\ HasNeighbour(r, "south") => Peer(r, "south") = r + cfg.P
            /\ HasNeighbour(r, "west") => Peer(r, "west") = r - 1
            /\ HasNeighbour(r, "east") => Peer(r, "east") = r + 1
            /\ \A q \in Procs : SplitDone(q) =>
                  /\ (HasNeighbour(r, "north") /\ Peer(r, "north") = q)
                        <=> (HasNeighbour(q, "south") /\ Peer(q, "south") = r)
                  /\ (HasNeighbour(r, "west") /\ Peer(r, "west") = q)
                        <=> (HasNeighbour(q, "east") /\ Peer(q, "east") = r)

\* a rank of a two-dimensional grid with neighbours to the north, the west
\* and the east has its two communicators
C12_Witness ==
    \E r \in Procs :
        /\ WellFormed /\ SplitDone(r)
        /\ HasNeighbour(r, "north") /\ HasNeighbour(r, "west") /\ HasNeighbour(r, "east")

\* ------------------------------------------------------------------------
\* Rows and columns of a grid buffer, by cell coordinates: interior cells
\* are (0..nb-1, 0..mb-1), the ghost border is row -1, row mb, column -1
\* and column nb
\* ------------------------------------------------------------------------
Row(g, j, nb) == [i \in 1 .. nb |-> g[Pos(i - 1, j, nb)]]

Col(g, i, nb, mb) == [j \in 1 .. mb |-> g[Pos(i, j - 1, nb)]]

\* the ghost row or column of g on side d
GhostLine(g, d, nb, mb) ==
    CASE d = "north" -> Row(g, 0 - 1, nb)
      [] d = "south" -> Row(g, mb, nb)
      [] d = "west" -> Col(g, 0 - 1, nb, mb)
      [] d = "east" -> Col(g, nb, nb, mb)

\* the interior row or column of the buffer g of the neighbour on side d
\* that is adjacent to the block
FacingLine(g, d, nb, mb) ==
    CASE d = "north" -> Row(g, mb - 1, nb)
      [] d = "south" -> Row(g, 0, nb)
      [] d = "west" -> Col(g, nb - 1, nb, mb)
      [] d = "east" -> Col(g, 0, nb, mb)

Opposite(d) ==
    CASE d = "north" -> "south"
      [] d = "south" -> "north"
      [] d = "west" -> "east"
      [] d = "east" -> "west"

\* p goes from the return of MPI_Waitall through unpack and SOR1
StencilStep(p) == hist'[p].sor # hist[p].sor

\* ------------------------------------------------------------------------
\* C13: when p has completed the wait and unpack of iteration k, each ghost
\* row/column with a neighbour equals that neighbour's adjacent interior
\* row/column of its current buffer of iteration k; a receive consumes a
\* message of its own iteration, sent towards the receiver's side.
\* ------------------------------------------------------------------------
C13_HaloDelivery ==
    [][\A p \in Procs :
         /\ StencilStep(p) =>
              \A d \in Directions : HasNeighbour(p, d) =>
                  /\ iter[Peer(p, d)] = iter[p]
                  /\ GhostLine(grid'[p][om[p]], d, cfg.NB, cfg.MB)
                        = FacingLine(grid[Peer(p, d)][om[Peer(p, d)]], d, cfg.NB, cfg.MB)
         /\ \A s \in RecvSlots :
              (req[p][s] = "pending" /\ req'[p][s] = "complete") =>
                  LET m == Head(chan[<<Peer(p, SlotDir(s)), p>>])
                  IN m.it = iter[p] /\ m.dir = Opposite(SlotDir(s))]_vars

\* a process with neighbours on both sides has unpacked the columns of
\* its second exchange, which differ from the caller's boundary
C13_Witness ==
    \E p \in Procs :
        /\ pc[p] = "allreduce" /\ iter[p] = 1
        /\ HasNeighbour(p, "east") /\ HasNeighbour(p, "west")
        /\ GhostLine(Current(p), "west", cfg.NB, cfg.MB)
              # [j \in 1 .. cfg.MB |-> BoundaryValue(cfg.bv)]
        /\ GhostLine(Current(p), "west", cfg.NB, cfg.MB)
              # GhostLine(Current(p), "east", cfg.NB, cfg.MB)

\* ------------------------------------------------------------------------
\* C14: in each direction in which a process has no neighbour the exchange
\* (post, wait, unpack) leaves the ghost row/column of the current buffer
\* as it was before the exchange.
\* ------------------------------------------------------------------------
\* p is in the exchange of an iteration
InExchange(p) == pc[p] \in {"post", "wait"}

C14_BoundaryGhostsUntouched ==
    [][\A p \in Procs :
         InExchange(p) =>
             \A d \in Directions : ~HasNeighbour(p, d) =>
                 GhostLine(grid'[p][om[p]], d, cfg.NB, cfg.MB)
                    = GhostLine(grid[p][om[p]], d, cfg.NB, cfg.MB)]_vars

\* ------------------------------------------------------------------------
\* C15: between allocation and release om and nm are two distinct buffers,
\* exactly one of them the caller's, and om is the caller's buffer exactly
\* when the number of completed iterations is even.
\* ------------------------------------------------------------------------
C15_DoubleBuffer ==
    \A p \in Procs :
        pc[p] # "start" =>
            /\ om[p] # nm[p]
            /\ {om[p], nm[p]} = GridBufs
            /\ om[p] = "matrix" <=> iter[p] % 2 = 0

\* after two swaps the caller's buffer is the current one again
C15_Witness ==
    \E p \in Procs : pc[p] = "timings" /\ iter[p] = 2 /\ om[p] = "matrix" /\ nm[p] = "alloc"

\* ------------------------------------------------------------------------
\* C16: at loop termination jacobi_cpu releases the allocated grid buffer
\* exactly once and never the caller's buffer, whatever role each holds;
\* each of the four edge buffers is released exactly once, and no buffer is
\* used after its release.
\* ------------------------------------------------------------------------
C16_ReleaseSafety ==
    /\ [](\A p \in Procs :
            /\ mem[p]["matrix"] = "live"
            /\ \A b \in AllocBufs : mem[p][b] # "double_freed"
            /\ Returned(p) => \A b \in AllocBufs : mem[p][b] = "freed"
            /\ (\E b \in AllocBufs : mem[p][b] = "freed") => Returned(p))
    /\ [][\A p \in Procs :
            Returned(p) =>
                /\ pc'[p] = pc[p]
                /\ grid'[p] = grid[p] /\ scratch'[p] = scratch[p] /\ mem'[p] = mem[p]]_vars

\* a run of two iterations has returned: the caller's buffer was the
\* current one at the release
C16_Witness ==
    \E p \in Procs :
        /\ Returned(p) /\ ret[p] = 2 /\ om[p] = "matrix"
        /\ mem[p]["alloc"] = "freed" /\ mem[p]["matrix"] = "live"

\* ------------------------------------------------------------------------
\* C17: on a valid process grid, every posted transfer completing once its
\* match is posted and every process being scheduled, every process
\* reaches the return; every posted receive has had its send and every
\* send its receive, and all processes have run the same number of
\* iterations and collectives.
\* ------------------------------------------------------------------------
\* a valid process grid, every allocation succeeding
ValidRun == WellFormed /\ cfg.oom = NoOom

AllReturned == \A p \in Procs : Returned(p)

C17_DeadlockFreeTermination ==
    /\ ValidRun ~> AllReturned
    /\ [](ValidRun =>
            /\ \A p \in Procs : \A q \in Procs :
                  Len(chan[<<p, q>>]) <= 1
            /\ AllReturned =>
                  /\ \A e \in DOMAIN chan : chan[e] = <<>>
                  /\ \A p \in Procs : \A s \in Slots : req[p][s] = "null"
                  /\ \A p \in Procs : \A q \in Procs :
                        /\ ret[p] = ret[q]
                        /\ hist[p].reduce = hist[q].reduce
                        /\ hist[p].reduce = ret[p]
                  /\ \A k \in 1 .. Len(coll) : coll[k].n = cfg.size
                  /\ timed = Procs)

\* three processes in a valid grid have all returned from two iterations
C17_Witness ==
    /\ ValidRun /\ cfg.size = 3 /\ AllReturned
    /\ ret[0] = 2 /\ hist[1].posted = 8

\* ------------------------------------------------------------------------
\* C18: every ghost cell value SOR1 reads in iteration k is the value the
\* exchange of iteration k delivered (where a neighbour exists) or the
\* caller's boundary value (where none exists), never a stale value or the
\* zero fill of the allocated buffer.
\* ------------------------------------------------------------------------
\* the values the ghost line of p on side d has to hold at the stencil
FreshLine(p, d) ==
    IF HasNeighbour(p, d)
    THEN FacingLine(grid[Peer(p, d)][om[Peer(p, d)]], d, cfg.NB, cfg.MB)
    ELSE GhostLine(CallerMatrix(p, cfg), d, cfg.NB, cfg.MB)

\* SOR1 reads the west and north ghost cells of nm and the east and south
\* ghost cells of om
C18_GhostFreshness ==
    [][\A p \in Procs :
         StencilStep(p) =>
            /\ GhostLine(grid[p][nm[p]], "west", cfg.NB, cfg.MB) = FreshLine(p, "west")
            /\ GhostLine(grid[p][nm[p]], "north", cfg.NB, cfg.MB) = FreshLine(p, "north")
            /\ GhostLine(grid'[p][om[p]], "east", cfg.NB, cfg.MB) = FreshLine(p, "east")
            /\ GhostLine(grid'[p][om[p]], "south", cfg.NB, cfg.MB) = FreshLine(p, "south")]_vars

\* ------------------------------------------------------------------------
\* C19: the norm returned by SOR1 is the sum over the NB * MB interior
\* cells, and no ghost cell, of the squared difference between the next and
\* the current value; it is never negative, and zero when every interior
\* cell is left equal to its current value.
\* ------------------------------------------------------------------------
\* the sum of the squared differences of n and o over the cells of S
RECURSIVE SqDiffSum(_, _, _)
SqDiffSum(n, o, S) ==
    IF S = {} THEN 0
    ELSE LET x == CHOOSE y \in S : TRUE
         IN FMul(n[x] - o[x], n[x] - o[x]) + SqDiffSum(n, o, S \ {x})

\* p holds the value SOR1 has returned, before MPI_Allreduce replaces it
HoldsLocalNorm(p) == pc[p] = "allreduce"

C19_LocalNorm ==
    \A p \in Procs :
        HoldsLocalNorm(p) =>
            /\ diff_norm[p] = SqDiffSum(grid[p][nm[p]], grid[p][om[p]],
                                        InteriorIdx(cfg.NB, cfg.MB))
            /\ diff_norm[p] >= 0
            /\ (\A x \in InteriorIdx(cfg.NB, cfg.MB) : grid[p][nm[p]][x] = grid[p][om[p]][x])
                  => diff_norm[p] = 0

\* one process whose update changed nothing holds norm 0 while another
\* holds a positive norm, ghost cells of its two buffers differing
C19_Witness ==
    \E p \in Procs : \E q \in Procs :
        /\ HoldsLocalNorm(p) /\ diff_norm[p] = 0
        /\ \A x \in InteriorIdx(cfg.NB, cfg.MB) : grid[p][nm[p]][x] = grid[p][om[p]][x]
        /\ HoldsLocalNorm(q) /\ diff_norm[q] > 0
        /\ \E x \in GhostIdx(cfg.NB, cfg.MB) : grid[q][nm[q]][x] # grid[q][om[q]][x]

\* ------------------------------------------------------------------------
\* C20: one call of SOR1 writes every interior cell of the next buffer and
\* no ghost cell of it, never writes the current buffer, and for each cell
\* reads the west and north neighbours from the next buffer and the cell,
\* its east and south neighbours from the current buffer; visiting the
\* cells row by row, an interior west or north neighbour is read with the
\* value written earlier in the same pass.
\* ------------------------------------------------------------------------
\* the stencil on the five values: centre, west, east, north, south
StencilValue(c, w, e, n, s, nb) ==
    FMul(ToType(1) - RelaxW(nb), c) + FMul(FDiv(RelaxW(nb), ToType(4)), w + e + n + s)

C20_StencilFootprint ==
    /\ []({ VisitedPos(k, cfg.NB) : k \in 0 .. (cfg.NB * cfg.MB - 1) }
             = InteriorIdx(cfg.NB, cfg.MB))
    /\ [](\A k \in 1 .. (cfg.NB * cfg.MB - 1) :
             /\ VisitedPos(k, cfg.NB) > VisitedPos(k - 1, cfg.NB)
             /\ VisitedPos(k, cfg.NB) = VisitedPos(k - 1, cfg.NB) + 1
                  \/ (k % cfg.NB = 0 /\ VisitedPos(k, cfg.NB) = Pos(0, k \div cfg.NB, cfg.NB)))
    /\ [](\A p \in Procs :
            pc[p] = "allreduce" =>
                LET N == grid[p][nm[p]]
                    O == grid[p][om[p]]
                IN \A x \in InteriorIdx(cfg.NB, cfg.MB) :
                       N[x] = StencilValue(O[x], N[x - 1], O[x + 1],
                                           N[x - (cfg.NB + 2)], O[x + (cfg.NB + 2)], cfg.NB))
    /\ [][\A p \in Procs :
            StencilStep(p) =>
                /\ \A x \in GhostIdx(cfg.NB, cfg.MB) : grid'[p][nm[p]][x] = grid[p][nm[p]][x]
                /\ \A x \in InteriorIdx(cfg.NB, cfg.MB) : grid'[p][om[p]][x] = grid[p][om[p]][x]
                /\ Row(grid'[p][om[p]], 0 - 1, cfg.NB) = Row(grid[p][om[p]], 0 - 1, cfg.NB)
                /\ Row(grid'[p][om[p]], cfg.MB, cfg.NB) = Row(grid[p][om[p]], cfg.MB, cfg.NB)
                /\ Col(grid'[p][om[p]], 0 - 1, cfg.NB, cfg.MB) = scratch[p]["recv_west"]
                /\ Col(grid'[p][om[p]], cfg.NB, cfg.NB, cfg.MB) = scratch[p]["recv_east"]]_vars

\* a second pass on a block of at least 2 x 2 cells: a cell has interior
\* west and north neighbours whose new values differ from the current ones
C20_Witness ==
    \E p \in Procs :
        /\ pc[p] = "allreduce" /\ iter[p] = 1 /\ cfg.NB >= 2 /\ cfg.MB >= 2
        /\ LET x == Pos(1, 1, cfg.NB)
           IN /\ grid[p][nm[p]][x - 1] # grid[p][om[p]][x - 1]
              /\ grid[p][nm[p]][x - (cfg.NB + 2)] # grid[p][om[p]][x - (cfg.NB + 2)]

====
